---- MODULE Spec2Model ----
(***************************************************************************)
(* Model of scripts/generate_and_post.js: the run orchestrator main(), the *)
(* retry helper withRetry(), the network helpers built on it and the       *)
(* SQLite table `posted` used for duplicate suppression.                   *)
(*                                                                         *)
(* main() is one sequential async function; every action below is one of   *)
(* its awaited steps.  A step that goes through withRetry() is one         *)
(* invocation of the wrapped function per action.                          *)
(***************************************************************************)
EXTENDS Integers, Sequences, FiniteSets, TLC

\* ---------------------------------------------------------------- bounds
MaxRuns == 2
MaxFaults == 1

\* ------------------------------------------------------ program constants
Attempts == 4
BaseMs == 1000
TimelineMax == 8
ConvoMax == 50
KeySlice == 300
ReplySlice == 270

\* ------------------------------------------------------------- utilities
Min(a, b) == IF a <= b THEN a ELSE b

\* String.prototype.slice(0, n) on a string modelled as a sequence of chars
Slice(s, n) == SubSeq(s, 1, Min(n, Len(s)))

ReverseNot(s) == s

\* Array.prototype.slice().reverse()
Reverse(s) == [k \in 1..Len(s) |-> s[Len(s) + 1 - k]]

\* sha256 is modelled as a collision-free digest of its input
sha256(s) == <<"sha256", s>>

uniqueKeyWholeText(t) == t.id \o <<"|">> \o t.text

\* t.id + '|' + content.slice(0,300)
uniqueKey(t) == t.id \o <<"|">> \o Slice(t.text, KeySlice)

hash(t) == sha256(uniqueKey(t))

\* the API returns at most max_results most-recent-first tweets
Window(tweets, max_results) == SubSeq(tweets, 1, Min(max_results, Len(tweets)))

\* Array.prototype.filter(t => t.conversation_id === conversation_id)
RECURSIVE FilterConversation(_, _)
FilterConversation(tweets, cid) ==
    IF tweets = <<>> THEN <<>>
    ELSE IF Head(tweets).conversation_id = cid
         THEN <<Head(tweets)>> \o FilterConversation(Tail(tweets), cid)
         ELSE FilterConversation(Tail(tweets), cid)

SortNone(s) == s

\* convo.sort((a,b) => new Date(a.created_at) - new Date(b.created_at)):
\* a stable sort, so equal creation times keep their fetched order
RECURSIVE InsertByCreatedAt(_, _)
InsertByCreatedAt(x, s) ==
    IF s = <<>> THEN <<x>>
    ELSE IF Head(s).created_at <= x.created_at
         THEN <<Head(s)>> \o InsertByCreatedAt(x, Tail(s))
         ELSE <<x>> \o s

RECURSIVE SortByCreatedAt(_)
SortByCreatedAt(s) ==
    IF s = <<>> THEN <<>>
    ELSE InsertByCreatedAt(s[Len(s)], SortByCreatedAt(SubSeq(s, 1, Len(s) - 1)))

\* ------------------------------------------------------- fetched batches
\* A batch is projects.json plus what the remote accounts hold; it is the
\* same in every run of one behaviour.
Tweet(id, text, at, cid) ==
    [id |-> id, text |-> text, created_at |-> at, conversation_id |-> cid]

\* a head, its reply (most recent first) and a stand-alone tweet elsewhere
BatchThread ==
    [projects |-> << [name |-> <<"A">>, handle |-> <<"@", "a">>],
                     [name |-> <<"B">>, handle |-> <<"b">>] >>,
     remote   |-> << [userId |-> <<"7">>,
                      tweets |-> << Tweet(<<"2">>, <<"r">>, 2, <<"1">>),
                                    Tweet(<<"1">>, <<"h">>, 1, <<"1">>) >>],
                     [userId |-> <<"8">>,
                      tweets |-> << Tweet(<<"5">>, <<"s">>, 3, <<"5">>) >>] >>]

\* two replies with equal creation time whose head is outside the window
BatchTie ==
    [projects |-> << [name |-> <<"A">>, handle |-> <<"@", "a">>],
                     [name |-> <<"B">>, handle |-> <<"b">>] >>,
     remote   |-> << [userId |-> <<"7">>,
                      tweets |-> << Tweet(<<"b">>, <<"x">>, 4, <<"c">>),
                                    Tweet(<<"a">>, <<"y">>, 4, <<"c">>) >>],
                     [userId |-> <<"8">>,
                      tweets |-> << Tweet(<<"5">>, <<"s">>, 3, <<"5">>) >>] >>]

Batches == {BatchThread, BatchTie}

\* ------------------------------------------------- outcomes of one call
\* fetch() either rejects (network error) or resolves to a response; the
\* body says whether the JSON carries the data the caller looks for
\* status 0 stands for a rejected promise: no response at all
Throw == [status |-> 0, data |-> FALSE]
Responses == { [status |-> 200, data |-> TRUE],
               [status |-> 200, data |-> FALSE],
               [status |-> 403, data |-> FALSE],
               [status |-> 429, data |-> FALSE],
               [status |-> 503, data |-> FALSE] }
Outcomes == Responses \cup {Throw}

\* Response.ok
ok(res) == res.status >= 200 /\ res.status <= 299

\* a call that did not deliver what the caller asked for
IsFault(o) == o = Throw \/ ~ok(o) \/ ~o.data

None == <<>>

VARIABLES
    batch,          \* the fetched batch of this behaviour
    run,            \* number of the current (or last) run of the script
    pc,             \* position of main()
    p,              \* index of the project being processed
    userId,         \* resolved user id of the project
    tweets,         \* timeline.data.slice().reverse()
    idx,            \* index of t in tweets
    threadTweets,   \* threadTweets of the current item
    caption,        \* caption of the current item, until the head publish used it
    postedId,       \* id returned by the head publish
    ridx,           \* index of tw in threadTweets
    retry,          \* locals of the withRetry call in progress
    lastCall,       \* the withRetry call that ended in the last step, if any
    store,          \* ids in table posted
    store0,         \* table posted as it was when the run started
    nextId,         \* number of tweets created at the destination
    faults,         \* number of failed calls so far
    log,            \* what the run did, in order
    fx              \* the call under study when one function is run on its own

vars == <<fx, batch, run, pc, p, userId, tweets, idx, threadTweets, caption,
          postedId, ridx, retry, lastCall, store, store0, nextId, faults, log>>


NoId == 0
NoFx == [fn |-> "-"]

\* tw.text of the tweet with the given id
TweetText(id) ==
    LET all == UNION {{batch.remote[s].tweets[k] : k \in 1..Len(batch.remote[s].tweets)}
                         : s \in 1..Len(batch.remote)}
    IN  (CHOOSE tw \in all : tw.id = id).text
Fresh == [attempt |-> 0, responses |-> <<>>, delays |-> <<>>]
NoCall == [responses |-> <<>>, delays |-> <<>>, result |-> "none"]

remote == batch.remote[p]
t == tweets[idx]

Event(type, seed, kind, item, reply, result, id) ==
    [type |-> type, run |-> run, src |-> p, seed |-> seed, kind |-> kind,
     item |-> item, reply |-> reply, result |-> result, id |-> id,
     text |-> IF kind = "reply"
              THEN Slice(TweetText(item), ReplySlice)
              ELSE None]

ItemEvent(result) == Event("item", t.id, "-", t.id, NoId, result, NoId)
SourceEvent(result) == Event("source", None, "-", None, NoId, result, NoId)
RecordEvent(result) == Event("record", t.id, "-", t.id, NoId, result, NoId)
PostEvent(kind, item, reply, result, id) ==
    Event("post", t.id, kind, item, reply, result, id)

\* ------------------------------------------------------------- withRetry
RetryWaitFromBase(baseMs, attempt) == baseMs * 2^(attempt - 1)

\* const wait = baseMs * Math.pow(2, attempt)
RetryWait(baseMs, attempt) == baseMs * 2^attempt

ExhaustedLate(attempt, attempts) == attempt > attempts

\* if (attempt >= attempts) throw e
Exhausted(attempt, attempts) == attempt >= attempts

\* what one invocation of fn with outcome o makes withRetry do
Verdict(o) ==
    IF o = Throw
    THEN IF Exhausted(retry.attempt + 1, Attempts) THEN "raise" ELSE "sleep"
    ELSE "return"

\* catch(e){ attempt++; ...; await sleep(wait); } and the loop goes round
Backoff(o) ==
    /\ retry' = [attempt   |-> retry.attempt + 1,
                 responses |-> Append(retry.responses, o),
                 delays    |-> Append(retry.delays,
                                      RetryWait(BaseMs, retry.attempt + 1))]
    /\ lastCall' = NoCall

\* return await fn()   or   throw e
EndCall(o, result) ==
    /\ lastCall' = [responses |-> Append(retry.responses, o),
                    delays    |-> retry.delays,
                    result    |-> result]
    /\ retry' = Fresh

\* the failures explored in one behaviour are bounded by MaxFaults
Allowed(o) == Verdict(o) = "sleep" \/ ~IsFault(o) \/ faults < MaxFaults
Charge(o) == IF Verdict(o) # "sleep" /\ IsFault(o) THEN faults + 1 ELSE faults

\* ------------------------------------------------------ control of main()
Goto(pc2, p2, userId2, tweets2, idx2, thread2, caption2, postedId2, ridx2) ==
    /\ pc' = pc2
    /\ p' = p2
    /\ userId' = userId2
    /\ tweets' = tweets2
    /\ idx' = idx2
    /\ threadTweets' = thread2
    /\ caption' = caption2
    /\ postedId' = postedId2
    /\ ridx' = ridx2

Step(pc2) == Goto(pc2, p, userId, tweets, idx, threadTweets, caption, postedId, ridx)

\* for (const p of projects): the next project, or db.close() after the last
NextProject ==
    IF p < Len(batch.projects)
    THEN Goto("resolve", p + 1, None, <<>>, 0, <<>>, "-", NoId, 0)
    ELSE Goto("closed", 0, None, <<>>, 0, <<>>, "-", NoId, 0)

\* for (const t of tweets): the next tweet, or the end of the project's try
NextItem(evs) ==
    IF idx < Len(tweets)
    THEN /\ Goto("check", p, userId, tweets, idx + 1, <<>>, "-", NoId, 0)
         /\ log' = log \o evs
    ELSE /\ NextProject
         /\ log' = log \o evs \o <<SourceEvent("done")>>

SkipSourceReturn ==
    /\ Goto("closed", 0, None, <<>>, 0, <<>>, "-", NoId, 0)
    /\ log' = log \o <<SourceEvent("skipped")>>

\* continue (in the project loop): the source is skipped for this run
SkipSource ==
    /\ NextProject
    /\ log' = log \o <<SourceEvent("skipped")>>

CatchRethrow(evs) ==
    /\ Goto("fatal", 0, None, <<>>, 0, <<>>, "-", NoId, 0)
    /\ log' = log \o evs \o <<SourceEvent("error")>>

CatchPerItem(evs) ==
    IF pc \in {"post_single", "post_head"}
    THEN /\ Step("record")
         /\ log' = log \o evs
    ELSE /\ NextProject
         /\ log' = log \o evs \o <<SourceEvent("error")>>

\* catch(e){ console.error('Project loop error for', p.name, e); }
Catch(evs) ==
    /\ NextProject
    /\ log' = log \o evs \o <<SourceEvent("error")>>

\* --------------------------------------------------------------- the run
Init ==
    /\ batch \in Batches
    /\ run = 0
    /\ pc = "idle"
    /\ p = 0
    /\ userId = None
    /\ tweets = <<>>
    /\ idx = 0
    /\ threadTweets = <<>>
    /\ caption = "-"
    /\ postedId = NoId
    /\ ridx = 0
    /\ retry = Fresh
    /\ lastCall = NoCall
    /\ store = {}
    /\ store0 = {}
    /\ nextId = 0
    /\ faults = 0
    /\ log = <<>>
    /\ fx = NoFx

\* main(): setupDb() and reading projects.json; a failure here is fatal
StartRun ==
    /\ pc \in {"idle", "closed", "fatal"}
    /\ run < MaxRuns
    /\ run' = run + 1
    /\ store0' = store
    /\ \E opened \in BOOLEAN :
         /\ opened \/ faults < MaxFaults
         /\ faults' = IF opened THEN faults ELSE faults + 1
         /\ IF opened /\ Len(batch.projects) > 0
            THEN Goto("resolve", 1, None, <<>>, 0, <<>>, "-", NoId, 0)
            ELSE Goto(IF opened THEN "closed" ELSE "fatal",
                      0, None, <<>>, 0, <<>>, "-", NoId, 0)
    /\ lastCall' = NoCall
    /\ UNCHANGED <<fx, batch, retry, store, nextId, log>>

\* resolveUserIdByHandle(handleWithAt)
Resolve ==
    /\ pc = "resolve"
    /\ \E o \in Outcomes :
         /\ Allowed(o)
         /\ faults' = Charge(o)
         /\ CASE Verdict(o) = "sleep" ->
                   /\ Backoff(o)
                   /\ Step(pc)
                   /\ UNCHANGED log
              [] Verdict(o) = "raise" ->
                   /\ EndCall(o, "raised")
                   /\ Catch(<<>>)
              [] OTHER ->
                   /\ EndCall(o, "returned")
                   /\ IF ok(o) /\ o.data
                      THEN /\ Goto("timeline", p, remote.userId, <<>>, 0, <<>>,
                                   "-", NoId, 0)
                           /\ UNCHANGED log
                      ELSE SkipSource
    /\ UNCHANGED <<fx, batch, run, store, store0, nextId>>

\* fetchTweetsForUser(userId, 8) and timeline.data.slice().reverse()
Timeline ==
    /\ pc = "timeline"
    /\ \E o \in Outcomes :
         /\ Allowed(o)
         /\ faults' = Charge(o)
         /\ CASE Verdict(o) = "sleep" ->
                   /\ Backoff(o)
                   /\ Step(pc)
                   /\ UNCHANGED log
              [] Verdict(o) = "raise" ->
                   /\ EndCall(o, "raised")
                   /\ Catch(<<>>)
              [] OTHER ->
                   /\ EndCall(o, "returned")
                   /\ IF ok(o) /\ o.data
                         /\ Len(Window(remote.tweets, TimelineMax)) > 0
                      THEN /\ Goto("check", p, userId,
                                   Reverse(Window(remote.tweets, TimelineMax)),
                                   1, <<>>, "-", NoId, 0)
                           /\ UNCHANGED log
                      ELSE SkipSource
    /\ UNCHANGED <<fx, batch, run, store, store0, nextId>>

ExistsNever(h, table) == FALSE

\* const exists = await db.get('SELECT id FROM posted WHERE id = ?', [hash])
Exists(h, table) == h \in table

InConversationAny(tw) == tw.conversation_id # None

\* if (t.conversation_id && t.conversation_id !== t.id)
InConversation(tw) == tw.conversation_id # None /\ tw.conversation_id # tw.id

\* the dedupe check of the current tweet
Check ==
    /\ pc = "check"
    /\ \E failed \in BOOLEAN :
         /\ ~failed \/ faults < MaxFaults
         /\ faults' = IF failed THEN faults + 1 ELSE faults
         /\ IF failed
            THEN Catch(<<ItemEvent("raised")>>)
            ELSE IF Exists(hash(t), store)
                 THEN NextItem(<<ItemEvent("skip")>>)
                 ELSE /\ log' = log \o <<ItemEvent("new")>>
                      /\ IF InConversation(t)
                         THEN Step("convo")
                         ELSE Goto("caption", p, userId, tweets, idx, <<t>>,
                                   "-", NoId, 0)
    /\ lastCall' = NoCall
    /\ UNCHANGED <<fx, batch, run, retry, store, store0, nextId>>

\* fetchConversation(userId, conversation_id, 50) as main() uses its result
Conversation(res, seed) ==
    LET convo == IF ok(res) /\ res.data
                 THEN FilterConversation(Window(remote.tweets, ConvoMax),
                                         seed.conversation_id)
                 ELSE <<>>
    IN  IF Len(convo) > 1 THEN SortByCreatedAt(convo) ELSE <<seed>>

Convo ==
    /\ pc = "convo"
    /\ \E o \in Outcomes :
         /\ Allowed(o)
         /\ faults' = Charge(o)
         /\ CASE Verdict(o) = "sleep" ->
                   /\ Backoff(o)
                   /\ Step(pc)
                   /\ UNCHANGED log
              [] Verdict(o) = "raise" ->
                   /\ EndCall(o, "raised")
                   /\ Catch(<<Event("convo", t.id, "-", t.id, NoId, "raised", NoId)>>)
              [] OTHER ->
                   /\ EndCall(o, "returned")
                   /\ Goto("caption", p, userId, tweets, idx,
                           Conversation(o, t), "-", NoId, 0)
                   /\ UNCHANGED log
    /\ UNCHANGED <<fx, batch, run, store, store0, nextId>>

\* generateCaption(content, handleWithAt): the model's text or the fallback
Caption ==
    /\ pc = "caption"
    /\ \E c \in {"generated", "fallback"} :
         Goto(IF Len(threadTweets) = 1 THEN "post_single" ELSE "post_head",
              p, userId, tweets, idx, threadTweets, c, NoId, 0)
    /\ lastCall' = NoCall
    /\ UNCHANGED <<fx, batch, run, retry, store, store0, nextId, faults, log>>

\* j of postTweet: j.data.id is there when the tweet was created
Created(res) == ok(res) /\ res.data
PostResult(res) == IF Created(res) THEN "ok" ELSE "fail"
PostId(res) == IF Created(res) THEN nextId + 1 ELSE NoId

\* postTweet(repostText, media_ids, null) of a single tweet
PostSingle ==
    /\ pc = "post_single"
    /\ \E o \in Outcomes :
         /\ Allowed(o)
         /\ faults' = Charge(o)
         /\ CASE Verdict(o) = "sleep" ->
                   /\ Backoff(o)
                   /\ Step(pc)
                   /\ UNCHANGED <<log, nextId>>
              [] Verdict(o) = "raise" ->
                   /\ EndCall(o, "raised")
                   /\ Catch(<<PostEvent("single", t.id, NoId, "raised", NoId)>>)
                   /\ UNCHANGED nextId
              [] OTHER ->
                   /\ EndCall(o, "returned")
                   /\ nextId' = IF Created(o) THEN nextId + 1 ELSE nextId
                   /\ log' = log \o <<PostEvent("single", t.id, NoId,
                                                PostResult(o), PostId(o))>>
                   /\ Goto("record", p, userId, tweets, idx, threadTweets,
                           "-", NoId, 0)
    /\ UNCHANGED <<fx, batch, run, store, store0>>

\* postTweet(firstText, media_ids, null) of a thread, and if (postedId)
PostHead ==
    /\ pc = "post_head"
    /\ \E o \in Outcomes :
         /\ Allowed(o)
         /\ faults' = Charge(o)
         /\ CASE Verdict(o) = "sleep" ->
                   /\ Backoff(o)
                   /\ Step(pc)
                   /\ UNCHANGED <<log, nextId>>
              [] Verdict(o) = "raise" ->
                   /\ EndCall(o, "raised")
                   /\ Catch(<<PostEvent("head", None, NoId, "raised", NoId)>>)
                   /\ UNCHANGED nextId
              [] OTHER ->
                   /\ EndCall(o, "returned")
                   /\ nextId' = IF Created(o) THEN nextId + 1 ELSE nextId
                   /\ log' = log \o <<PostEvent("head", None, NoId,
                                                PostResult(o), PostId(o))>>
                   /\ IF PostId(o) # NoId
                      THEN Goto("post_reply", p, userId, tweets, idx,
                                threadTweets, "-", PostId(o), 1)
                      ELSE Goto("record", p, userId, tweets, idx,
                                threadTweets, "-", NoId, 0)
    /\ UNCHANGED <<fx, batch, run, store, store0>>

\* for (const tw of threadTweets): postTweet(text, [], postedId); sleep(1200)
PostReply ==
    /\ pc = "post_reply"
    /\ \E o \in Outcomes :
         /\ Allowed(o)
         /\ faults' = Charge(o)
         /\ CASE Verdict(o) = "sleep" ->
                   /\ Backoff(o)
                   /\ Step(pc)
                   /\ UNCHANGED <<log, nextId>>
              [] Verdict(o) = "raise" ->
                   /\ EndCall(o, "raised")
                   /\ Catch(<<PostEvent("reply", threadTweets[ridx].id,
                                        postedId, "raised", NoId)>>)
                   /\ UNCHANGED nextId
              [] OTHER ->
                   /\ EndCall(o, "returned")
                   /\ nextId' = IF Created(o) THEN nextId + 1 ELSE nextId
                   /\ log' = log \o <<PostEvent("reply", threadTweets[ridx].id,
                                                postedId, PostResult(o),
                                                PostId(o))>>
                   /\ IF ridx < Len(threadTweets)
                      THEN Goto("post_reply", p, userId, tweets, idx,
                                threadTweets, caption, postedId, ridx + 1)
                      ELSE Goto("record", p, userId, tweets, idx,
                                threadTweets, caption, NoId, 0)
    /\ UNCHANGED <<fx, batch, run, store, store0>>

\* INSERT INTO posted (id, ...): id is the PRIMARY KEY of the table
Insert(h, table) == table \cup {h}
Conflict(h, table) == h \in table

\* db.run('INSERT INTO posted ...'); sleep(1500)
Record ==
    /\ pc = "record"
    /\ \E failed \in BOOLEAN :
         /\ ~failed \/ faults < MaxFaults
         /\ faults' = IF failed THEN faults + 1 ELSE faults
         /\ IF failed \/ Conflict(hash(t), store)
            THEN /\ Catch(<<RecordEvent("raised")>>)
                 /\ UNCHANGED store
            ELSE /\ store' = Insert(hash(t), store)
                 /\ NextItem(<<RecordEvent("ok")>>)
    /\ lastCall' = NoCall
    /\ UNCHANGED <<fx, batch, run, retry, store0, nextId>>

Next ==
    \/ StartRun
    \/ Resolve
    \/ Timeline
    \/ Check
    \/ Convo
    \/ Caption
    \/ PostSingle
    \/ PostHead
    \/ PostReply
    \/ Record

Spec == Init /\ [][Next]_vars

TypeOK == pc \in {"idle", "resolve", "timeline", "check", "convo", "caption",
                  "post_single", "post_head", "post_reply", "record",
                  "closed", "fatal"}

\* ------------------------------------------------- reading the history
Range(s) == {s[k] : k \in 1..Len(s)}
Events == Range(log)
AllTweets == UNION {Range(batch.remote[s].tweets) : s \in 1..Len(batch.remote)}
TweetOf(id) == CHOOSE tw \in AllTweets : tw.id = id
HashOf(id) == hash(TweetOf(id))
HeadPosts == {e \in Events : e.type = "post" /\ e.kind \in {"single", "head"}}
ReplyPosts == {e \in Events : e.type = "post" /\ e.kind = "reply"}
Raised == {e \in Events : e.type # "source" /\ e.result = "raised"}
SourcesOf(r) == {e.src : e \in {x \in Events : x.type = "source" /\ x.run = r}}
AllSources == 1..Len(batch.projects)

\* main() is still inside the processing of tweet seed of source s in run r
InProgress(r, s, seed) ==
    /\ run = r /\ p = s /\ idx > 0
    /\ pc \in {"check", "convo", "caption", "post_single", "post_head",
               "post_reply", "record"}
    /\ t.id = seed

\* source s of run r is behind main()
SourceOver(r, s) == run > r \/ p # s

\* ------------------------------------------------------------------ C1
\* C1: in a run that starts with fingerprints in the store, every tweet
\* whose fingerprint was there at the start is skipped by the dedupe check
\* (or the check itself fails): the run makes no publish call and no record
\* for it.
Idempotence ==
    \A e \in Events :
        (e.run = run /\ e.type # "source" /\ HashOf(e.seed) \in store0)
            => (e.type = "item" /\ e.result \in {"skip", "raised"})

\* a second run has skipped a tweet that the first run published and recorded
IdempotenceWitness ==
    \E e \in Events, f \in HeadPosts :
        /\ e.run = 2 /\ e.type = "item" /\ e.result = "skip"
        /\ f.run = 1 /\ f.seed = e.seed /\ f.result = "ok"
        /\ HashOf(e.seed) \in store0
        /\ pc = "closed"

\* ------------------------------------------------------------------ C2
\* C2: a thread whose head is in the batch is published at most once: over
\* all runs there is at most one successful head publish (single repost or
\* thread headline) for its conversation.
Threads ==
    {tw.id : tw \in {x \in AllTweets :
        \E y \in AllTweets : y.id # x.id /\ y.conversation_id = x.id
                             /\ x.conversation_id = x.id}}

EmittedOnce ==
    \A c \in Threads :
        Cardinality({e \in HeadPosts : e.result = "ok"
                        /\ TweetOf(e.seed).conversation_id = c}) <= 1

\* ------------------------------------------------------------------ C3
\* C3: when the head publish of a tweet ends with the last retry failing,
\* no fingerprint is recorded for the tweet in that run, its fingerprint is
\* not in the store for the rest of the run, and the next run does not skip
\* it.
HeadFailure ==
    \A e \in HeadPosts :
        e.result = "raised" =>
            /\ e.run = run => HashOf(e.seed) \notin store
            /\ ~\E f \in Events :
                   f.type = "record" /\ f.run = e.run /\ f.seed = e.seed
            /\ ~\E f \in Events :
                   /\ f.type = "item" /\ f.run = e.run + 1 /\ f.seed = e.seed
                   /\ f.result = "skip"

\* the head publish ran out of retries in run 1 and run 2 published the tweet
HeadFailureWitness ==
    \E e \in HeadPosts, f \in HeadPosts :
        /\ e.run = 1 /\ e.result = "raised"
        /\ f.run = 2 /\ f.seed = e.seed /\ f.result = "ok"
        /\ HashOf(e.seed) \in store

\* ------------------------------------------------------------------ C4
\* C4: every fingerprint in the store is the fingerprint of a tweet whose
\* head publish returned a created-tweet id.
RecordedAfterSuccess ==
    \A h \in store :
        \E e \in HeadPosts : e.result = "ok" /\ HashOf(e.seed) = h

\* ------------------------------------------------------------------ C5
\* C5: when a reply of a thread fails (a failure response or the last retry
\* failing) the processing of the tweet goes on to the record step: once
\* main() has left the tweet, its fingerprint is recorded unless the write
\* itself failed.
PartialThread ==
    \A e \in ReplyPosts :
        (/\ e.result \in {"fail", "raised"}
         /\ ~InProgress(e.run, e.src, e.seed)
         /\ ~\E f \in Events : f.type = "record" /\ f.run = e.run
                               /\ f.seed = e.seed /\ f.result = "raised")
            => /\ HashOf(e.seed) \in store
               /\ \E f \in Events : f.type = "record" /\ f.run = e.run
                                    /\ f.seed = e.seed /\ f.result = "ok"

\* ------------------------------------------------------------------ C6
\* C6: when a step of one tweet raises an exception, every tweet of the
\* timeline of that source is still reached by that run.
Fetched(s) == Window(batch.remote[s].tweets, TimelineMax)

PerItemIsolation ==
    \A e \in Raised :
        SourceOver(e.run, e.src) =>
            \A k \in 1..Len(Fetched(e.src)) :
                \E f \in Events : /\ f.type = "item" /\ f.run = e.run
                                  /\ f.src = e.src
                                  /\ f.seed = Fetched(e.src)[k].id

\* ------------------------------------------------------------------ C7
\* C7: a source that is skipped or whose loop raises an exception does not
\* end the run: main() goes on with the next project, every configured
\* source is reached before the run closes, and the failed source has no
\* publish call and no record after its failure.
SourceFailed(e) == e.type = "source" /\ e.result \in {"skipped", "error"}

PerSourceIsolation ==
    /\ \A j \in 1..Len(log) : \A k \in 1..Len(log) :
           (j < k /\ SourceFailed(log[j]))
               => ~(log[k].run = log[j].run /\ log[k].src = log[j].src)
    /\ \A e \in Events :
           (SourceFailed(e) /\ e.run = run)
               => /\ pc # "fatal"
                  /\ pc = "closed" \/ p > e.src
    /\ pc = "closed" => SourcesOf(run) = AllSources

\* the first source failed and the run still published for the second one
PerSourceIsolationWitness ==
    \E e \in Events, f \in HeadPosts :
        /\ SourceFailed(e) /\ e.run = run /\ e.src = 1
        /\ f.run = run /\ f.src = 2 /\ f.result = "ok"
        /\ pc = "closed"

\* ------------------------------------------------------------------ C8
WriteFailed(e) == e.type = "record" /\ e.result = "raised"

WriteFailureSafe ==
    \A e \in Events :
        WriteFailed(e) =>
            /\ e.run = run =>
                   /\ HashOf(e.seed) \notin store
                   /\ pc # "fatal"
                   /\ pc = "closed" \/ p > e.src
                   /\ pc = "closed" => SourcesOf(run) = AllSources
            /\ ~\E f \in Events :
                   /\ f.type = "item" /\ f.run = e.run + 1 /\ f.seed = e.seed
                   /\ f.result = "skip"

\* the write failed in run 1, run 1 closed, and run 2 published the tweet again
WriteFailureWitness ==
    \E e \in Events, f \in HeadPosts, g \in Events :
        /\ WriteFailed(e) /\ e.run = 1
        /\ f.run = 2 /\ f.seed = e.seed /\ f.result = "ok"
        /\ g.type = "source" /\ g.run = 1 /\ g.src = Len(batch.projects)

\* ------------------------------------------------------------------ C9
\* C9: a withRetry call whose function fails every time invokes it exactly
\* 4 times, sleeps 2000, 4000 and 8000 between the invocations, does not
\* sleep after the 4th failure and raises that failure.
AllThrow(rs) == \A k \in 1..Len(rs) : rs[k] = Throw
Shape == <<2000, 4000, 8000>>

BackoffShape ==
    /\ lastCall.result = "raised" =>
           /\ Len(lastCall.responses) = 4
           /\ AllThrow(lastCall.responses)
           /\ lastCall.delays = Shape
    /\ (Len(lastCall.responses) = 4 /\ AllThrow(lastCall.responses))
           => lastCall.result = "raised"
    /\ Len(retry.responses) < 4
    /\ AllThrow(retry.responses)
    /\ retry.delays = SubSeq(Shape, 1, Len(retry.responses))

\* a call has ended with its 4th failure
BackoffShapeWitness ==
    /\ lastCall.result = "raised"
    /\ Len(lastCall.responses) = 4
    /\ Len(lastCall.delays) = 3

\* ----------------------------------------------------------------- C10
\* C10: a response with status 429 or 5xx is not handed to the caller before
\* the attempt limit is reached, and a response with another 4xx status is
\* never followed by another invocation.
Retryable(res) == res.status = 429 \/ (res.status >= 500 /\ res.status <= 599)
Terminal(res) == res.status >= 400 /\ res.status <= 499 /\ res.status # 429

StatusRetried(rs) ==
    \A k \in 1..Len(rs) :
        /\ (Retryable(rs[k]) /\ k < Attempts) => k < Len(rs)
        /\ Terminal(rs[k]) => k = Len(rs)

RetryableStatuses ==
    /\ lastCall.result = "returned" => StatusRetried(lastCall.responses)
    /\ \A k \in 1..Len(retry.responses) : ~Terminal(retry.responses[k])

\* the event loop runs every continuation of main() that is ready
FairSpec == Spec /\ WF_vars(Next)

WriteFailureEnds ==
    (\E e \in Events : WriteFailed(e) /\ e.run = run) ~> (pc = "closed")

\* C8: when the INSERT of a fingerprint fails, the run goes on with the next
\* project, never ends fatally and reaches its normal end, the fingerprint
\* is not in the store for the rest of the run, and the next run does not
\* skip the tweet.
WriteFailure == []WriteFailureSafe /\ WriteFailureEnds

\* ----------------------------------------------------------------- C11
\* C11: a thread is published as a head call without reply target, then one
\* call for each item after the first, and every reply call targets the id
\* returned by the publish call right before it.
ThreadProtocol ==
    /\ \A e \in HeadPosts : e.reply = NoId
    /\ pc = "post_reply" => ridx > 1
    /\ \A k \in 1..Len(log) :
           (log[k].type = "post" /\ log[k].kind = "reply") =>
               /\ k > 1
               /\ log[k - 1].type = "post"
               /\ log[k - 1].run = log[k].run
               /\ log[k - 1].seed = log[k].seed
               /\ log[k - 1].result = "ok" => log[k].reply = log[k - 1].id

\* ------------------------------------------- thread reconstruction alone
\* The dedupe check and the reconstruction of one seed, on timelines drawn
\* from a pool of tweets in every fetched order.
MaxFetched == 3

ReconPool ==
    { Tweet(<<"a">>, <<"x">>, 4, <<"c">>),
      Tweet(<<"b">>, <<"y">>, 4, <<"c">>),
      Tweet(<<"d">>, <<"z">>, 5, <<"c">>),
      Tweet(<<"c">>, <<"v">>, 2, <<"c">>),
      Tweet(<<"e">>, <<"w">>, 3, <<"e">>) }

\* the fetched lists: up to MaxFetched different tweets of the pool
ReconTimelines ==
    UNION { {s \in [1..n -> ReconPool] :
                \A i \in 1..n : \A j \in 1..n : i # j => s[i] # s[j]}
            : n \in 1..MaxFetched }

ReconBatch(s) ==
    [projects |-> << [name |-> <<"A">>, handle |-> <<"@", "a">>] >>,
     remote   |-> << [userId |-> <<"7">>, tweets |-> s] >>]

\* main() stands at the dedupe check of one tweet of a fetched timeline
ReconInit ==
    /\ \E s \in ReconTimelines : batch = ReconBatch(s)
    /\ run = 1
    /\ pc = "check"
    /\ p = 1
    /\ userId = batch.remote[1].userId
    /\ tweets = Reverse(Window(batch.remote[1].tweets, TimelineMax))
    /\ idx \in 1..Len(batch.remote[1].tweets)
    /\ threadTweets = <<>>
    /\ caption = "-"
    /\ postedId = NoId
    /\ ridx = 0
    /\ retry = Fresh
    /\ lastCall = NoCall
    /\ store = {}
    /\ store0 = {}
    /\ nextId = 0
    /\ faults = 0
    /\ log = <<>>
    /\ fx = NoFx

ReconNext ==
    \/ Check
    \/ Convo

ReconSpec == ReconInit /\ [][ReconNext]_vars

\* the reconstruction fetch of the current seed returned the tweets
Reconstructed ==
    /\ pc = "caption"
    /\ InConversation(t)
    /\ lastCall.result = "returned"
    /\ Created(lastCall.responses[Len(lastCall.responses)])

SameConversation(seed) ==
    FilterConversation(Window(remote.tweets, ConvoMax), seed.conversation_id)

\* ----------------------------------------------------------------- C12
\* C12: when the reconstruction fetch of a seed inside a conversation
\* returns more than one tweet of that conversation, the unit holds exactly
\* these tweets, in ascending order of creation time.
ThreadOrdering ==
    (Reconstructed /\ Len(SameConversation(t)) > 1) =>
        /\ Range(threadTweets) = Range(SameConversation(t))
        /\ Len(threadTweets) = Len(SameConversation(t))
        /\ \A i \in 1..Len(threadTweets) : \A j \in 1..Len(threadTweets) :
               i < j => threadTweets[i].created_at <= threadTweets[j].created_at

\* three tweets fetched newest, oldest, middle were put in order
ThreadOrderingWitness ==
    /\ Reconstructed
    /\ Len(threadTweets) = 3
    /\ remote.tweets[1].created_at > remote.tweets[3].created_at
    /\ remote.tweets[2].created_at < remote.tweets[3].created_at
    /\ threadTweets[1].created_at < threadTweets[3].created_at

\* ----------------------------------------------------------------- C13
\* C13: tweets of a unit with equal creation time are in ascending
\* lexicographic order of their ids.
Chars == <<"1", "2", "5", "7", "8", "9", "a", "b", "c", "d", "e">>
Rank(ch) == CHOOSE k \in 1..Len(Chars) : Chars[k] = ch

RECURSIVE LexLess(_, _)
LexLess(x, y) ==
    IF x = <<>> THEN y # <<>>
    ELSE IF y = <<>> THEN FALSE
    ELSE IF Head(x) = Head(y) THEN LexLess(Tail(x), Tail(y))
    ELSE Rank(Head(x)) < Rank(Head(y))

TieBreak ==
    Reconstructed =>
        \A i \in 1..Len(threadTweets) : \A j \in 1..Len(threadTweets) :
            (i < j /\ threadTweets[i].created_at = threadTweets[j].created_at)
                => LexLess(threadTweets[i].id, threadTweets[j].id)

\* ----------------------------------------------------------------- C14
\* C14: within a run the sources are processed in configuration order, the
\* tweets of a source from the last fetched (oldest) to the first fetched
\* (newest), and every step of a tweet or a source comes before the first
\* step of the next one.
FetchedAt(s, id) == CHOOSE k \in 1..Len(Fetched(s)) : Fetched(s)[k].id = id

ProcessingOrder ==
    \A j \in 1..Len(log) : \A k \in 1..Len(log) :
        (j < k /\ log[j].run = log[k].run) =>
            /\ log[j].src <= log[k].src
            /\ log[j].type = "source" => log[j].src < log[k].src
            /\ (log[j].src = log[k].src /\ log[j].type # "source"
                   /\ log[k].type # "source")
                  => FetchedAt(log[j].src, log[j].seed)
                         >= FetchedAt(log[k].src, log[k].seed)

\* a run recorded the older tweet of the first source, then went through the
\* newer one, then published for the second source
ProcessingOrderWitness ==
    \E i \in 1..Len(log) : \E j \in 1..Len(log) : \E k \in 1..Len(log) :
        /\ i < j /\ j < k
        /\ log[i].run = log[k].run /\ log[j].run = log[k].run
        /\ log[i].type = "record" /\ log[i].src = 1
        /\ log[j].type = "post" /\ log[j].src = 1 /\ log[j].seed # log[i].seed
        /\ FetchedAt(1, log[i].seed) > FetchedAt(1, log[j].seed)
        /\ log[k].type = "post" /\ log[k].src = 2

\* ------------------------------------------------ one function on its own
\* In the specifications below main() does not run: one function is applied
\* to inputs drawn from a small set, and fx holds its inputs and its result.
mainvars == <<batch, run, pc, p, userId, tweets, idx, threadTweets, caption,
              postedId, ridx, retry, lastCall, store, store0, nextId, faults,
              log>>

Parked ==
    /\ batch = BatchThread
    /\ run = 0
    /\ pc = "idle"
    /\ p = 0
    /\ userId = None
    /\ tweets = <<>>
    /\ idx = 0
    /\ threadTweets = <<>>
    /\ caption = "-"
    /\ postedId = NoId
    /\ ridx = 0
    /\ retry = Fresh
    /\ lastCall = NoCall
    /\ store = {}
    /\ store0 = {}
    /\ nextId = 0
    /\ faults = 0
    /\ log = <<>>

\* ------------------------------------------------------------ fingerprint
\* texts of KeySlice characters and more, equal or not in the first KeySlice
Filler(n) == [k \in 1..n |-> "a"]

FpTexts ==
    { <<"h">>,
      Filler(KeySlice) \o <<"x">>,
      Filler(KeySlice) \o <<"y">>,
      Filler(KeySlice - 1) \o <<"b", "x">> }

\* tweets that differ in id, in text and in every other field
FpPool ==
    { [id |-> i, text |-> x, created_at |-> o, conversation_id |-> <<"c">> \o i,
       author_id |-> <<"u">>, attachments |-> o = 2]
      : i \in {<<"1">>, <<"2">>}, x \in FpTexts, o \in {1, 2} }
    \cup
    { [id |-> <<"1">>, text |-> x, created_at |-> 3, conversation_id |-> <<"9">>,
       author_id |-> <<"w">>, attachments |-> TRUE] : x \in FpTexts }

FpInit ==
    /\ Parked
    /\ \E a \in FpPool, b \in FpPool :
           fx = [fn |-> "hash", a |-> a, b |-> b, ha |-> None, hb |-> None]

\* const hash = sha256(uniqueKey) for both tweets
Fingerprint ==
    /\ fx.fn = "hash"
    /\ fx.ha = None
    /\ fx' = [fx EXCEPT !.ha = hash(fx.a), !.hb = hash(fx.b)]
    /\ UNCHANGED mainvars

FpNext == Fingerprint

FpSpec == FpInit /\ [][FpNext]_vars

\* ----------------------------------------------------------------- C15
\* C15: two tweets with the same id and the same first 300 characters of
\* text have the same fingerprint, whatever their other fields and the rest
\* of their text are.
FingerprintDeterminism ==
    (fx.fn = "hash" /\ fx.ha # None) =>
        ((fx.a.id = fx.b.id /\ Slice(fx.a.text, 300) = Slice(fx.b.text, 300))
            => fx.ha = fx.hb)

\* two tweets that differ past character 300 and in every other field
FingerprintDeterminismWitness ==
    /\ fx.fn = "hash" /\ fx.ha # None
    /\ fx.a.id = fx.b.id
    /\ Len(fx.a.text) > 300
    /\ fx.a.text # fx.b.text
    /\ fx.a.created_at # fx.b.created_at
    /\ fx.a.conversation_id # fx.b.conversation_id
    /\ fx.a.author_id # fx.b.author_id
    /\ fx.a.attachments # fx.b.attachments
    /\ fx.ha = fx.hb

\* -------------------------------------------------------- generateCaption
\* handle.startsWith('@') ? handle : '@' + handle
handleWithAt(handle) ==
    IF Len(handle) > 0 /\ handle[1] = "@" THEN handle ELSE <<"@">> \o handle

\* String.prototype.trim()
IsSpace(ch) == ch \in {" ", "\n", "\t"}

RECURSIVE TrimStart(_)
TrimStart(s) ==
    IF s # <<>> /\ IsSpace(Head(s)) THEN TrimStart(Tail(s)) ELSE s

RECURSIVE TrimEnd(_)
TrimEnd(s) ==
    IF s # <<>> /\ IsSpace(s[Len(s)]) THEN TrimEnd(SubSeq(s, 1, Len(s) - 1)) ELSE s

Trim(s) == TrimEnd(TrimStart(s))

\* the caption returned without OPENAI_API_KEY; one element of the
\* sequence per character, the emoji and the em dash one element each
FallbackNoKey(handle) ==
    <<"fire", " ">> \o handle \o
    <<" ", "u", "p", "d", "a", "t", "e", " ", "emdash", " ", "c", "h", "e", "c", "k",
      " ", "t", "h", "i", "s", " ", "o", "u", "t", "!", " ", "rocket", " ",
      "#", "C", "r", "y", "p", "t", "o">>

\* the caption of lines 112 and 115
Fallback(handle) ==
    <<"fire", " ">> \o handle \o
    <<" ", "u", "p", "d", "a", "t", "e", " ", "emdash", " ", "c", "h", "e", "c", "k",
      " ", "i", "t", " ", "o", "u", "t", "!", " ", "rocket">>

\* what the chat completion call can do: reject, answer with a body that is
\* not JSON, or answer with JSON whose choices[0].message.content is missing,
\* a string, or something that is not a string
Content(type, s) == [type |-> type, s |-> s]

CaptionOutcomes ==
    { [kind |-> "throw", content |-> Content("missing", <<>>)],
      [kind |-> "badjson", content |-> Content("missing", <<>>)],
      [kind |-> "json", content |-> Content("missing", <<>>)],
      [kind |-> "json", content |-> Content("string", <<>>)],
      [kind |-> "json", content |-> Content("number", <<"5">>)],
      [kind |-> "json", content |-> Content("string", <<" ">>)],
      [kind |-> "json", content |-> Content("string", <<" ", "g", "m", "\n">>)],
      [kind |-> "json", content |-> Content("string", <<"g", "o", " ", "@", "a">>)] }

\* j?.choices?.[0]?.message?.content || null
Truthy(content) == content.type # "missing" /\ content.s # <<>>

Returns(s) == [raised |-> FALSE, value |-> s]
Raises == [raised |-> TRUE, value |-> <<>>]

generateCaptionNoCatch(key, api, handle) ==
    IF key = None THEN Returns(FallbackNoKey(handle))
    ELSE IF api.kind \in {"throw", "badjson"} THEN Raises
    ELSE IF ~Truthy(api.content) THEN Returns(Trim(Fallback(handle)))
    ELSE IF api.content.type # "string" THEN Raises
    ELSE Returns(Trim(api.content.s))

\* generateCaption(text, handle) with OPENAI_KEY = key when the API does api
generateCaption(key, api, handle) ==
    IF key = None THEN Returns(FallbackNoKey(handle))
    ELSE IF api.kind \in {"throw", "badjson"} THEN Returns(Fallback(handle))
    ELSE IF ~Truthy(api.content) THEN Returns(Trim(Fallback(handle)))
    ELSE IF api.content.type # "string" THEN Returns(Fallback(handle))
    ELSE Returns(Trim(api.content.s))

CaptionHandles == {<<"@", "a">>, <<"b">>, <<"@", "c", "d">>, <<"e", "f">>}
CaptionKeys == {None, <<"k">>}
CaptionTexts == {<<"h">>, <<"g", "m">>}

CaptionInit ==
    /\ Parked
    /\ \E k \in CaptionKeys, a \in CaptionOutcomes, h \in CaptionHandles,
          x \in CaptionTexts :
           fx = [fn |-> "caption", key |-> k, api |-> a, text |-> x,
                 handle |-> handleWithAt(h), out |-> [raised |-> FALSE,
                                                     value |-> <<"?">>],
                 done |-> FALSE]

\* const caption = await generateCaption(content, handleWithAt)
GenerateCaption ==
    /\ fx.fn = "caption"
    /\ ~fx.done
    /\ fx' = [fx EXCEPT !.out = generateCaption(fx.key, fx.api, fx.handle),
                        !.done = TRUE]
    /\ UNCHANGED mainvars

CaptionNext == GenerateCaption

CaptionSpec == CaptionInit /\ [][CaptionNext]_vars

\* ----------------------------------------------------------------- C16
\* C16: when caption generation fails (no API key, the call throws, the body
\* is not JSON, the content is missing, empty or not a string),
\* generateCaption raises nothing and returns a non-empty string that
\* contains the display handle.
Contains(s, sub) ==
    \E i \in 1..(Len(s) - Len(sub) + 1) : SubSeq(s, i, i + Len(sub) - 1) = sub

GenerationFailed ==
    \/ fx.key = None
    \/ fx.api.kind \in {"throw", "badjson"}
    \/ ~Truthy(fx.api.content)
    \/ fx.api.content.type # "string"

Runners == {"scheduled", "manual"}

StoreTweets(q) == Reverse(Window(BatchThread.remote[q].tweets, TimelineMax))

StoreAt(pc2, q, i) == [pc |-> pc2, p |-> q, idx |-> i]

StoreInit ==
    /\ Parked
    /\ fx = [fn |-> "store", table |-> {},
             at |-> [r \in Runners |-> StoreAt("get", 1, 1)],
             raised |-> {}]

\* the next project, or db.close() after the last
StoreNextProject(r) ==
    IF fx.at[r].p < Len(BatchThread.projects)
    THEN StoreAt("get", fx.at[r].p + 1, 1)
    ELSE StoreAt("closed", 0, 0)

StoreNextItem(r) ==
    IF fx.at[r].idx < Len(StoreTweets(fx.at[r].p))
    THEN StoreAt("get", fx.at[r].p, fx.at[r].idx + 1)
    ELSE StoreNextProject(r)

StoreHash(r) == hash(StoreTweets(fx.at[r].p)[fx.at[r].idx])

\* const exists = await db.get(...); if (exists) continue
StoreGet(r) ==
    /\ fx.fn = "store"
    /\ fx.at[r].pc = "get"
    /\ fx' = [fx EXCEPT !.at[r] =
                 IF Exists(StoreHash(r), fx.table)
                 THEN StoreNextItem(r)
                 ELSE StoreAt("publish", fx.at[r].p, fx.at[r].idx)]
    /\ UNCHANGED mainvars

\* reconstruction, caption and the publish calls of the item
StorePublish(r) ==
    /\ fx.fn = "store"
    /\ fx.at[r].pc = "publish"
    /\ fx' = [fx EXCEPT !.at[r].pc = "record"]
    /\ UNCHANGED mainvars

\* await db.run('INSERT INTO posted (id, ...) VALUES (?, ...)', [hash, ...]);
\* a raised INSERT goes to the catch of the project loop
StoreRecord(r) ==
    /\ fx.fn = "store"
    /\ fx.at[r].pc = "record"
    /\ IF Conflict(StoreHash(r), fx.table)
       THEN fx' = [fx EXCEPT !.raised = @ \cup {<<r, StoreHash(r)>>},
                             !.at[r] = StoreNextProject(r)]
       ELSE fx' = [fx EXCEPT !.table = Insert(StoreHash(r), @),
                             !.at[r] = StoreNextItem(r)]
    /\ UNCHANGED mainvars

StoreNext == \E r \in Runners : StoreGet(r) \/ StorePublish(r) \/ StoreRecord(r)

StoreSpec == StoreInit /\ [][StoreNext]_vars

\* ----------------------------------------------------------------- C17
\* C17: recording a fingerprint key that is already in the store does not
\* raise an error (and the store keeps exactly one entry for that key).
RecordIdempotent == fx.fn = "store" => fx.raised = {}


\* ----------------------------------------------------------------- C18
\* C18: when a seed's conversation id equals its own id, the unit is the seed
\* alone (length 1) and no fetch is made for reconstruction: main() never
\* waits on fetchConversation for such a seed, and it reaches the caption
\* straight from the dedupe check, without any call in between.
ItemInHand == pc \in {"convo", "caption", "post_single", "post_head",
                      "post_reply", "record"}

Standalone(tw) == tw.conversation_id = tw.id

StandaloneSeed ==
    (ItemInHand /\ Standalone(t)) =>
        /\ pc # "convo"
        /\ pc \notin {"post_head", "post_reply"}
        /\ threadTweets = <<t>>
        /\ Len(threadTweets) = 1
        /\ pc = "caption" => (lastCall = NoCall /\ retry = Fresh)

\* the head of a thread, a standalone seed, is published alone while its
\* reply is still waiting in the same timeline
StandaloneSeedWitness ==
    /\ pc = "post_single"
    /\ Standalone(t)
    /\ threadTweets = <<t>>
    /\ \E k \in 1..Len(tweets) : tweets[k].conversation_id = t.id /\ k # idx


\* ------------------------------------------------------ withRetry alone
\* withRetry(fn, attempts, baseMs) for any attempts and baseMs; fx holds the
\* arguments, the local attempt, the outcome of every invocation of fn, the
\* sleeps made and how the call ended
MaxAttempts == 5

RetryBases == {250, 500, BaseMs}

\* fn() rejects or resolves to a response
RetryOutcomes == {Throw, [status |-> 200, data |-> TRUE],
                         [status |-> 429, data |-> FALSE]}

RetryInit ==
    /\ Parked
    /\ \E n \in 0..MaxAttempts, b \in RetryBases :
           fx = [fn |-> "retry", attempts |-> n, baseMs |-> b, attempt |-> 0,
                 outs |-> <<>>, delays |-> <<>>, pc |-> "loop"]

\* one turn of the loop: try { return await fn(); } catch(e){ ... }
RetryInvoke ==
    /\ fx.fn = "retry"
    /\ fx.pc = "loop"
    /\ fx.attempt < fx.attempts
    /\ \E o \in RetryOutcomes :
         fx' = IF o # Throw
               THEN [fx EXCEPT !.outs = Append(@, o), !.pc = "returned"]
               ELSE IF Exhausted(fx.attempt + 1, fx.attempts)
                    THEN [fx EXCEPT !.outs = Append(@, o),
                                    !.attempt = @ + 1,
                                    !.pc = "raised"]
                    ELSE [fx EXCEPT !.outs = Append(@, o),
                                    !.attempt = @ + 1,
                                    !.delays = Append(@, RetryWait(fx.baseMs,
                                                          fx.attempt + 1))]
    /\ UNCHANGED mainvars

\* while(attempt < attempts) is false: the function ends without a value
RetryFallOut ==
    /\ fx.fn = "retry"
    /\ fx.pc = "loop"
    /\ ~(fx.attempt < fx.attempts)
    /\ fx' = [fx EXCEPT !.pc = "undefined"]
    /\ UNCHANGED mainvars

RetryNext == RetryInvoke \/ RetryFallOut

RetrySpec == RetryInit /\ [][RetryNext]_vars

\* fn() settles and sleep() ends, so the loop always takes its next turn
FairRetrySpec == RetrySpec /\ WF_vars(RetryNext)

\* ----------------------------------------------------------------- C19
\* C19: for attempts >= 1, withRetry invokes fn at least once and at most
\* attempts times; the first invocation that succeeds ends the call with its
\* result, with no further invocation and no further sleep; and the call
\* always ends, with that result or by throwing the last failure.
RetryEnded == fx.pc \in {"returned", "raised"}

RetrySafe ==
    (fx.fn = "retry" /\ fx.attempts >= 1) =>
        /\ Len(fx.outs) <= fx.attempts
        /\ fx.pc # "undefined"
        /\ \A k \in 1..(Len(fx.outs) - 1) : fx.outs[k] = Throw
        /\ RetryEnded => Len(fx.outs) >= 1
        /\ fx.pc = "loop" =>
               /\ \A k \in 1..Len(fx.outs) : fx.outs[k] = Throw
               /\ Len(fx.delays) = Len(fx.outs)
        /\ fx.pc = "returned" =>
               /\ fx.outs[Len(fx.outs)] # Throw
               /\ Len(fx.delays) = Len(fx.outs) - 1
        /\ fx.pc = "raised" =>
               /\ fx.outs[Len(fx.outs)] = Throw
               /\ Len(fx.outs) = fx.attempts
               /\ Len(fx.delays) = fx.attempts - 1

\* once the call has ended nothing more is invoked and nothing more is slept
RetryFinal == (fx.fn = "retry" /\ RetryEnded) => fx' = fx

RetryEnds == (fx.fn = "retry" /\ fx.attempts >= 1) => <>RetryEnded

RetryBounded == []RetrySafe /\ [][RetryFinal]_vars /\ RetryEnds

\* the third invocation of five allowed succeeds, after two sleeps
RetryBoundedWitness ==
    /\ fx.fn = "retry"
    /\ fx.attempts = MaxAttempts
    /\ fx.pc = "returned"
    /\ Len(fx.outs) = 3
    /\ fx.delays = <<RetryWait(fx.baseMs, 1), RetryWait(fx.baseMs, 2)>>


\* ----------------------------------------------------------------- C20
\* C20: when a seed's conversation id differs from its id and the
\* reconstruction fetch fails or gives at most one tweet of the conversation,
\* the unit is the seed alone and the seed is published by one single-item
\* call with no reply target (and then recorded).
FetchGaveNoThread ==
    /\ pc = "caption"
    /\ InConversation(t)
    /\ lastCall.result = "returned"
    /\ \/ ~Created(lastCall.responses[Len(lastCall.responses)])
       \/ Len(SameConversation(t)) <= 1

FetchRaised(e) == e.type = "convo" /\ e.result = "raised"

DegradesOnReturn == FetchGaveNoThread => threadTweets = <<t>>

DegradesOnRaise ==
    \A e \in Events :
        (FetchRaised(e) /\ ~InProgress(e.run, e.src, e.seed)) =>
            \E f \in HeadPosts :
                /\ f.run = e.run /\ f.seed = e.seed
                /\ f.kind = "single" /\ f.reply = NoId

ReconDegrades == DegradesOnReturn /\ DegradesOnRaise

====
